---- MODULE Spec2Model ----
(***************************************************************************)
(* ringwork: session-bound identity resolution and SSH key lifecycle.      *)
(*                                                                         *)
(* Python str values are TLA+ strings, "" being the empty (falsy) string.  *)
(* Python None for a Profile is the record NoProfile (empty username).     *)
(* One client (browser) per element of Conns; each client persists its own *)
(* EndUser settings and holds at most one rio Session at a time.  A        *)
(* handler runs to completion, a force_refresh() it requests included.     *)
(***************************************************************************)
EXTENDS Integers, Sequences, FiniteSets, TLC

\* ------------------------------------------------------------------ bounds
MaxKey == 2            \* secret keys the account store issues in one run
MaxBits == 2           \* distinct raw values typed into the RSA Bits input

Conns == {"c1", "c2"}
Users == {"alice", "bob"}                 \* accounts the store knows
Usernames == Users \cup {"eve"}           \* what can be typed into the login form
Passwords == {"good", "bad"}
Pages == {"/", "/public", "/login", "/ssh"}
NoTarget == ""

VARIABLES
    enduser,      \* [Conns -> EndUser]: client-persisted (session_id, secret_key)
    alive,        \* [Conns -> BOOLEAN]: the client's rio Session is open
    url,          \* [Conns -> [path, target]]: session.active_page_url
    sessions,     \* account store: set of [session_id, secret_key, username]
    issued,       \* number of secret keys the account store has issued
    generated,    \* number of session ids SessionID.generate() has produced
    rings,        \* [Users -> [names -> SSHKeyPair]]: SSHKeyRing per workspace
    ssh_keys,     \* [Conns -> [names -> SSHKeyItem]]: SSHKeyComponent.ssh_keys
    dialog,       \* [Conns -> dialog record]: the open Create/Upload dialog
    menu_items,   \* [Conns -> Seq(MenuItem)]: SSHPage.menu_items
    last          \* observation of the handler that ran last

vars == <<enduser, alive, url, sessions, issued, generated, rings, ssh_keys,
          dialog, menu_items, last>>

\* ------------------------------------------------------- IdentityToken
EndUser(session_id, secret_key) ==
    [session_id |-> session_id, secret_key |-> secret_key]

NOBODY == EndUser("", "")

SessionID_generate(n) == "s" \o ToString(n)

SecretKey(n) == "k" \o ToString(n)

\* ------------------------------------------------------- account store
Profile(username) == [username |-> username, workspace |-> username]

NoProfile == [username |-> "", workspace |-> ""]

\* Account.fetch(session_id, secret_key): the profile bound to the pair.
fetch(store, session_id, secret_key) ==
    IF \E s \in store : s.session_id = session_id /\ s.secret_key = secret_key
    THEN Profile((CHOOSE s \in store :
                    s.session_id = session_id /\ s.secret_key = secret_key).username)
    ELSE NoProfile

Truthy(profile) == profile.username # ""

\* AccessControl.identify(user)
identify(store, user) == fetch(store, user.session_id, user.secret_key)

Verify(username, password) == username \in Users /\ password = "good"

\* AccessControl.activate(username, password, session_id): on valid
\* credentials a fresh secret_key is issued and bound to session_id.
activate(store, n, username, password, session_id) ==
    IF Verify(username, password) /\ session_id # ""
    THEN [ok |-> TRUE,
          secret_key |-> SecretKey(n + 1),
          store |-> {s \in store : s.session_id # session_id}
                    \cup {[session_id |-> session_id,
                           secret_key |-> SecretKey(n + 1),
                           username |-> username]}]
    ELSE [ok |-> FALSE, secret_key |-> "", store |-> store]

\* AccessControl.deactivate(user): revokes the session and clears the local
\* secret_key; nothing happens for a token the store does not resolve.
deactivate(store, user) ==
    IF Truthy(identify(store, user))
    THEN [ok |-> TRUE,
          user |-> EndUser(user.session_id, ""),
          store |-> {s \in store : s.session_id # user.session_id}]
    ELSE [ok |-> FALSE, user |-> user, store |-> store]

\* ------------------------------------------------------------ key ring
Algos == {"rsa", "dsa", "ecdsa"}
EcdsaBits == {256, 384, 521}
MinRsaBits == 1024
DsaBits == 1024
DefaultBits == 4096
RawBits == {512 * (4 ^ (i - 1)) : i \in 1..MaxBits}   \* 512, 2048, ...
Texts == {"", "k1"}                       \* typed into Name / Comment
CommentTexts == {"", "c"}                 \* typed into Comment (round trip)
PrivateTexts == {"", "PEM", "junk"}       \* pasted / picked private key text
KeyTexts == PrivateTexts \cup {"BARE", "WEAK"}   \* ... and two unusual keys
ImportNames == Texts \cup {"mine"}        \* typed into the import dialog's Name

SSHKeyPair(algo, bits, comment) ==
    [algo |-> algo, bits |-> bits, comment |-> comment]

EmptyRing == [n \in {} |-> SSHKeyPair("", 0, "")]

Put(f, name, value) ==
    [n \in DOMAIN f \cup {name} |-> IF n = name THEN value ELSE f[n]]

Drop(f, name) == [n \in DOMAIN f \ {name} |-> f[n]]

\* A faulty SSHKeyItem.create that drops the owner.
SSHKeyItem_create_anonymous(user, name, pair) ==
    [algorithm |-> pair.algo, comment |-> pair.comment, bits |-> pair.bits,
     name |-> name, user |-> ""]

\* SSHKeyItem.create(user, name, pair)
SSHKeyItem_create(user, name, pair) ==
    [algorithm |-> pair.algo, comment |-> pair.comment, bits |-> pair.bits,
     name |-> name, user |-> user]

NoKeys == [n \in {} |-> SSHKeyItem_create("", "", SSHKeyPair("", 0, ""))]

\* SSHKeyItem.empty() and the dialog's flags; `requested` is the value the
\* user last asked for in the Bits input, before any clamping
NoDialog ==
    [kind |-> "none", name |-> "", comment |-> "", algorithm |-> "rsa",
     bits |-> DefaultBits, private |-> "", sync_name |-> TRUE,
     sync_comment |-> TRUE, requested |-> DefaultBits]

\* SSHKeyPair(private=text): the parsed pair, or a raised exception
SSHKeyPair_parse(text) ==
    IF text = "PEM"
    THEN [ok |-> TRUE, pair |-> SSHKeyPair("rsa", 2048, "k1")]
    ELSE IF text = "BARE"                 \* a key without an embedded comment
    THEN [ok |-> TRUE, pair |-> SSHKeyPair("rsa", 2048, "")]
    ELSE IF text = "WEAK"                 \* an old 512-bit RSA key
    THEN [ok |-> TRUE, pair |-> SSHKeyPair("rsa", 512, "k1")]
    ELSE [ok |-> FALSE, pair |-> SSHKeyPair("", 0, "")]

Max(a, b) == IF a < b THEN b ELSE a

\* rio.NumberInput(minimum=...) delivers the typed value clamped to minimum
NumberInput_value(minimum, raw) == Max(minimum, raw)

\* A faulty build that normalises RSA only: shows that the normalisation of
\* the generated bits rests on build's dsa / ecdsa branches.
CreateComponent_build_rsa_only(d) ==
    IF d.algorithm = "rsa" THEN [d EXCEPT !.bits = Max(MinRsaBits, d.bits)]
    ELSE d

\* CreateComponent.build: the per-algorithm normalisation done on each render
CreateComponent_build(d) ==
    IF d.algorithm = "rsa" THEN [d EXCEPT !.bits = Max(MinRsaBits, d.bits)]
    ELSE IF d.algorithm = "dsa" THEN [d EXCEPT !.bits = DsaBits]
    ELSE IF d.algorithm = "ecdsa" THEN [d EXCEPT !.bits = 521]
    ELSE d

\* ------------------------------------------------------ error taxonomy
LoginRequired == "Login required"
Conflict == "SSH key already exists"
NameRequired == "Please enter a name"
CommentRequired == "Please enter a comment"
PrivateRequired == "Please enter a private key"
GenerationFailed == "Failed to generate SSH key"
ErrorText == "error"                      \* str(error) of a raised exception
InvalidCredentials == "Please try again."
InvalidFile == "Invalid private key file"

DeletionFailed(name) == "Failed to delete " \o name

Deleted(name) == "Successfully deleted " \o name

Generated(name) == "SSH key '" \o name \o "' generated"

Saved(name) == "SSH key '" \o name \o "' saved"

\* ---------------------------------------------------------- observation
\* one recorded call to an external collaborator
Call(fn, ws, name) ==
    [fn |-> fn, ws |-> ws, name |-> name, algo |-> "", bits |-> 0]

KeyCall(fn, ws, name, algo, bits) ==
    [fn |-> fn, ws |-> ws, name |-> name, algo |-> algo, bits |-> bits]

FetchCall == Call("fetch", "", "")

RingFns == {"contains", "generate", "create", "remove", "index", "iterate"}

ProfileOf(c) == fetch(sessions, enduser[c].session_id, enduser[c].secret_key)

\* What the handler that ran last did: the name and second field it was
\* given, the username its client's token resolved to when it ran, its
\* banner text, the external calls it made in order, whether it finished
\* (closed its dialog / the session), the guard result it obtained and the
\* page it navigated to ("" when it ran no guard / did not navigate); for an
\* HTTP endpoint the response's status, body and headers; and for any
\* handler the exception that left it uncaught ("" when none did) and the
\* outcome of its call of ring.generate / ring.create ("" when not called),
\* with whether the ring held the name when that call was made.
NoObservation ==
    [op |-> "init", conn |-> "", name |-> "", arg |-> "", profile |-> "",
     banner |-> "", calls |-> <<>>, finished |-> FALSE, guard |-> "",
     nav |-> "", status |-> 0, body |-> "", headers |-> <<>>,
     escaped |-> "", result |-> "", present |-> FALSE]

Observe(op, c) ==
    [NoObservation EXCEPT !.op = op, !.conn = c,
                          !.profile = ProfileOf(c).username]

\* ------------------------------------------------------------- guards
Allow == "allow"
LoginRoute == "/login"                    \* the Login page's url_segment
PublicRoute == "/public"                  \* the Public List page's url_segment

\* A faulty guard that lets everyone in.
Restrict_open(store, user) == Allow

\* A faulty guard that lets in every token that carries a secret_key.
Restrict_has_key(store, user) ==
    IF user.secret_key # "" THEN Allow ELSE PublicRoute

\* A faulty guard that lets in every token that carries a session_id.
Restrict_session_only(store, user) ==
    IF user.session_id # "" THEN Allow ELSE PublicRoute

\* components/access.py Restrict: None (allow) or a redirect to /public
Restrict(store, user) ==
    IF Truthy(fetch(store, user.session_id, user.secret_key))
    THEN Allow ELSE PublicRoute

\* components/user.py Restrict: None (allow) or a redirect to /login
Restrict_user(store, user) ==
    IF Truthy(fetch(store, user.session_id, user.secret_key))
    THEN Allow ELSE LoginRoute

\* A faulty on_populate that lists the keys of every workspace.
on_populate_everyone(store, user, rs) ==
    LET profile == fetch(store, user.session_id, user.secret_key)
        owner(n) == CHOOSE u \in Users : n \in DOMAIN rs[u]
    IN
    IF Truthy(profile)
    THEN [n \in UNION {DOMAIN rs[u] : u \in Users} |->
            SSHKeyItem_create(owner(n), n, rs[owner(n)][n])]
    ELSE NoKeys

\* SSHKeyComponent.on_populate on a freshly created component
on_populate(store, user, rs) ==
    LET profile == fetch(store, user.session_id, user.secret_key) IN
    IF Truthy(profile)
    THEN [n \in DOMAIN rs[profile.workspace] |->
            SSHKeyItem_create(profile.username, n, rs[profile.workspace][n])]
    ELSE NoKeys

\* the guard a page declares: only the SSH Keys page is restricted
GuardOf(store, user, path) ==
    IF path = "/ssh" THEN Restrict(store, user) ELSE Allow

\* the page a navigation to `path` ends on, after the page's guard
Landing(store, user, path) ==
    IF GuardOf(store, user, path) = Allow
    THEN path ELSE GuardOf(store, user, path)

\* the key list of the page component created by that navigation
Populated(store, user, rs, path) ==
    IF Landing(store, user, path) = "/ssh"
    THEN on_populate(store, user, rs) ELSE NoKeys

\* the observation of a navigation of client c, holding `user`, to `path`
Navigated(op, c, store, user, path) ==
    [NoObservation EXCEPT
        !.op = op, !.conn = c,
        !.profile = fetch(store, user.session_id, user.secret_key).username,
        !.guard = IF path = "/ssh" THEN Restrict(store, user) ELSE "",
        !.nav = Landing(store, user, path)]

\* ---------------------------------------------------------------- Init
Init ==
    /\ enduser = [c \in Conns |-> NOBODY]
    /\ alive = [c \in Conns |-> FALSE]
    /\ url = [c \in Conns |-> [path |-> "/", target |-> NoTarget]]
    /\ sessions = {}
    /\ issued = 0
    /\ generated = 0
    /\ rings = [u \in Users |-> EmptyRing]
    /\ ssh_keys = [c \in Conns |-> NoKeys]
    /\ dialog = [c \in Conns |-> NoDialog]
    /\ menu_items = [c \in Conns |-> <<>>]
    /\ last = NoObservation

\* ------------------------------------------------- session and identity
\* A faulty on_session_start that hands every client the same session_id.
ensure_token_fixed(user, n) ==
    IF user.session_id = ""
    THEN EndUser(SessionID_generate(1), user.secret_key)
    ELSE user

\* A faulty on_session_start that issues a session_id on every start.
ensure_token_fresh(user, n) ==
    EndUser(SessionID_generate(n + 1), user.secret_key)

\* on_session_start's token: a session_id is generated only for an empty one
ensure_token(user, n) ==
    IF user.session_id = ""
    THEN EndUser(SessionID_generate(n + 1), user.secret_key)
    ELSE user

\* A client connects (first visit, reload, reconnect after a close) asking
\* for `path`: AccessControl.on_session_start, then the page's guard.
on_session_start(c, path) ==
    LET user == ensure_token(enduser[c], generated) IN
    /\ enduser' = [enduser EXCEPT ![c] = user]
    /\ generated' = IF enduser[c].session_id = "" THEN generated + 1 ELSE generated
    /\ alive' = [alive EXCEPT ![c] = TRUE]
    /\ url' = [url EXCEPT ![c] = [path |-> Landing(sessions, user, path),
                                  target |-> NoTarget]]
    /\ ssh_keys' = [ssh_keys EXCEPT ![c] = Populated(sessions, user, rings, path)]
    /\ dialog' = [dialog EXCEPT ![c] = NoDialog]
    /\ menu_items' = [menu_items EXCEPT ![c] = <<>>]
    /\ last' = Navigated("session_start", c, sessions, user, path)
    /\ UNCHANGED <<sessions, issued, rings>>

\* A navbar link (Home, SSH Keys, Public List) or the login page's
\* "Access Public List" button: navigate_to(path), through the guard.
navigate_to(c, path) ==
    /\ alive[c]
    /\ dialog[c].kind = "none"
    /\ path # "/login"
    /\ path # url[c].path
    /\ url[c].path = "/login" => path = "/public"
    /\ url' = [url EXCEPT ![c] = [path |-> Landing(sessions, enduser[c], path),
                                  target |-> NoTarget]]
    /\ ssh_keys' = [ssh_keys EXCEPT
                      ![c] = Populated(sessions, enduser[c], rings, path)]
    /\ last' = Navigated("navigate", c, sessions, enduser[c], path)
    /\ UNCHANGED <<enduser, alive, sessions, issued, generated, rings, dialog,
               menu_items>>

\* NavbarRightComponent._on_login: to the login page, carrying the current
\* path as the "return to" target.
_on_login(c) ==
    /\ alive[c]
    /\ dialog[c].kind = "none"
    /\ url[c].path # "/login"
    /\ url' = [url EXCEPT ![c] = [path |-> "/login", target |-> url[c].path]]
    /\ ssh_keys' = [ssh_keys EXCEPT ![c] = NoKeys]
    /\ last' = [Observe("on_login", c) EXCEPT !.nav = "/login"]
    /\ UNCHANGED <<enduser, alive, sessions, issued, generated, rings, dialog,
               menu_items>>

\* Faulty variants of _login's write: one forgets the issued key, one
\* writes a key the store never issued.
login_user_keep(user, secret_key) == user

login_user_forged(user, secret_key) == EndUser(user.session_id, SecretKey(0))

\* _login's write of the issued key into the client's token
login_user(user, secret_key) == EndUser(user.session_id, secret_key)

\* A faulty _login that ignores the target of the login URL.
target_url_root(u) == "/"

\* _login's target_url: active_page_url.query.get("target", "/")
target_url_of(u) == IF u.target = NoTarget THEN "/" ELSE u.target

\* LoginPage._login
_login(c, username, password) ==
    LET got == activate(sessions, issued, username, password,
                        enduser[c].session_id)
        user == login_user(enduser[c], got.secret_key)
        target_url == target_url_of(url[c])
    IN
    /\ alive[c]
    /\ url[c].path = "/login"
    /\ got.ok => issued < MaxKey
    /\ IF ~got.ok
       THEN /\ last' = [Observe("login", c) EXCEPT
                          !.name = username, !.banner = InvalidCredentials]
            /\ UNCHANGED <<enduser, alive, url, sessions, issued, generated,
                           rings, ssh_keys, dialog, menu_items>>
       ELSE /\ enduser' = [enduser EXCEPT ![c] = user]
            /\ sessions' = got.store
            /\ issued' = issued + 1
            /\ url' = [url EXCEPT
                         ![c] = [path |-> Landing(got.store, user, target_url),
                                 target |-> NoTarget]]
            /\ ssh_keys' = [ssh_keys EXCEPT
                              ![c] = Populated(got.store, user, rings, target_url)]
            /\ last' = [Navigated("login", c, got.store, user, target_url)
                          EXCEPT !.name = username, !.finished = TRUE]
            /\ UNCHANGED <<alive, generated, rings, dialog, menu_items>>

\* A faulty _on_logout that closes the session whatever deactivate returns.
logout_closes_always(ok) == TRUE

\* whether _on_logout closes the session
logout_closes(ok) == ok

\* NavbarRightComponent._on_logout
_on_logout(c) ==
    LET got == deactivate(sessions, enduser[c])
        closes == logout_closes(got.ok)
    IN
    /\ alive[c]
    /\ dialog[c].kind = "none"
    /\ url[c].path # "/login"
    /\ enduser' = [enduser EXCEPT ![c] = got.user]
    /\ sessions' = got.store
    /\ alive' = [alive EXCEPT ![c] = IF closes THEN FALSE ELSE @]
    /\ ssh_keys' = [ssh_keys EXCEPT ![c] = IF closes THEN NoKeys ELSE @]
    /\ menu_items' = [menu_items EXCEPT ![c] = IF closes THEN <<>> ELSE @]
    /\ last' = [Observe("logout", c) EXCEPT !.finished = closes]
    /\ UNCHANGED <<url, issued, generated, rings, dialog>>

\* The account store drops a session on its own (expiry, revocation).
Expire ==
    \E s \in sessions :
        /\ sessions' = sessions \ {s}
        /\ UNCHANGED <<enduser, alive, url, issued, generated, rings,
                       ssh_keys, dialog, last, menu_items>>

\* ------------------------------------------------------- create dialog
_on_press_create_item(c) ==
    /\ alive[c]
    /\ url[c].path = "/ssh"
    /\ dialog[c].kind = "none"
    /\ dialog' = [dialog EXCEPT
                    ![c] = CreateComponent_build([NoDialog EXCEPT !.kind = "create"])]
    /\ UNCHANGED <<enduser, alive, url, sessions, issued, generated, rings,
                   ssh_keys, last, menu_items>>

\* A faulty _on_change_name that mirrors the name into the comment whatever
\* sync_comment says.
CreateComponent_on_change_name_always(c, text) ==
    LET d == dialog[c]
        d1 == [d EXCEPT !.sync_name = (text = ""), !.name = text]
    IN
    /\ d.kind = "create"
    /\ text # d.name
    /\ dialog' = [dialog EXCEPT
                    ![c] = IF text # ""
                           THEN CreateComponent_build([d1 EXCEPT !.comment = text])
                           ELSE d1]
    /\ UNCHANGED <<enduser, alive, url, sessions, issued, generated, rings,
                   ssh_keys, last, menu_items>>

CreateComponent_on_change_name(c, text) ==
    LET d == dialog[c]
        d1 == [d EXCEPT !.sync_name = (text = ""), !.name = text]
    IN
    /\ d.kind = "create"
    /\ text # d.name
    /\ dialog' = [dialog EXCEPT
                    ![c] = IF d.sync_comment /\ text # ""
                           THEN CreateComponent_build([d1 EXCEPT !.comment = text])
                           ELSE d1]
    /\ UNCHANGED <<enduser, alive, url, sessions, issued, generated, rings,
                   ssh_keys, last, menu_items>>

_on_change_comment(c, text) ==
    LET d == dialog[c]
        d1 == [d EXCEPT !.sync_comment = (text = ""), !.comment = text]
    IN
    /\ d.kind = "create"
    /\ text # d.comment
    /\ dialog' = [dialog EXCEPT
                    ![c] = IF d.sync_name /\ text # ""
                           THEN CreateComponent_build([d1 EXCEPT !.name = text])
                           ELSE d1]
    /\ UNCHANGED <<enduser, alive, url, sessions, issued, generated, rings,
                   ssh_keys, last, menu_items>>

_on_change_algorithm(c, value) ==
    LET d == dialog[c]
        d1 == [d EXCEPT !.algorithm = value,
                        !.bits = IF value = "rsa" THEN DefaultBits ELSE @,
                        !.requested = IF value = "rsa" THEN DefaultBits ELSE d.bits]
    IN
    /\ d.kind = "create"
    /\ value # d.algorithm
    /\ dialog' = [dialog EXCEPT ![c] = CreateComponent_build(d1)]
    /\ UNCHANGED <<enduser, alive, url, sessions, issued, generated, rings,
                   ssh_keys, last, menu_items>>

\* the RSA NumberInput's on_change (no re-render follows)
_on_change_bits(c, raw) ==
    LET d == dialog[c] IN
    /\ d.kind = "create"
    /\ d.algorithm = "rsa"
    /\ dialog' = [dialog EXCEPT
                    ![c] = [d EXCEPT !.bits = NumberInput_value(MinRsaBits, raw),
                                     !.requested = raw]]
    /\ UNCHANGED <<enduser, alive, url, sessions, issued, generated, rings,
                   ssh_keys, last, menu_items>>

\* the ECDSA Dropdown's on_change (no re-render follows)
_on_select_bits(c, value) ==
    LET d == dialog[c] IN
    /\ d.kind = "create"
    /\ d.algorithm = "ecdsa"
    /\ value # d.bits
    /\ dialog' = [dialog EXCEPT ![c] = [d EXCEPT !.bits = value,
                                                 !.requested = value]]
    /\ UNCHANGED <<enduser, alive, url, sessions, issued, generated, rings,
                   ssh_keys, last, menu_items>>

\* A faulty ring lookup that opens one ring for every profile.
SSHKeyRing_base_shared(profile) == "alice"

\* SSHKeyRing(base=profile.workspace): the ring a handler opens
SSHKeyRing_base(profile) == profile.workspace

\* A faulty _on_press_create without the duplicate-name check.
create_checks_no_conflict(d, profile, rs) ==
    IF d.name = "" THEN [banner |-> NameRequired, calls |-> <<>>]
    ELSE IF d.comment = "" THEN [banner |-> CommentRequired, calls |-> <<>>]
    ELSE IF ~Truthy(profile)
    THEN [banner |-> LoginRequired, calls |-> <<FetchCall>>]
    ELSE [banner |-> "", calls |-> <<FetchCall>>]

\* A faulty order of _on_press_create's checks: the comment is validated
\* before the name.
create_checks_comment_first(d, profile, rs) ==
    IF d.comment = "" THEN [banner |-> CommentRequired, calls |-> <<>>]
    ELSE IF d.name = "" THEN [banner |-> NameRequired, calls |-> <<>>]
    ELSE IF ~Truthy(profile)
    THEN [banner |-> LoginRequired, calls |-> <<FetchCall>>]
    ELSE IF d.name \in DOMAIN rs[profile.workspace]
    THEN [banner |-> Conflict,
          calls |-> <<FetchCall, Call("contains", profile.workspace, d.name)>>]
    ELSE [banner |-> "",
          calls |-> <<FetchCall, Call("contains", profile.workspace, d.name)>>]

\* A faulty order of _on_press_create's checks: the profile is resolved
\* before the comment is validated.
create_checks_fetch_first(d, profile, rs) ==
    IF d.name = "" THEN [banner |-> NameRequired, calls |-> <<>>]
    ELSE IF ~Truthy(profile)
    THEN [banner |-> LoginRequired, calls |-> <<FetchCall>>]
    ELSE IF d.comment = "" THEN [banner |-> CommentRequired, calls |-> <<FetchCall>>]
    ELSE IF d.name \in DOMAIN rs[profile.workspace]
    THEN [banner |-> Conflict,
          calls |-> <<FetchCall, Call("contains", profile.workspace, d.name)>>]
    ELSE [banner |-> "",
          calls |-> <<FetchCall, Call("contains", profile.workspace, d.name)>>]

\* _on_press_create up to the call of ring.generate: the banner of the
\* first failing check ("" when all pass) and the external calls made
create_checks(d, profile, rs) ==
    IF d.name = "" THEN [banner |-> NameRequired, calls |-> <<>>]
    ELSE IF d.comment = "" THEN [banner |-> CommentRequired, calls |-> <<>>]
    ELSE IF ~Truthy(profile)
    THEN [banner |-> LoginRequired, calls |-> <<FetchCall>>]
    ELSE IF d.name \in DOMAIN rs[profile.workspace]
    THEN [banner |-> Conflict,
          calls |-> <<FetchCall, Call("contains", profile.workspace, d.name)>>]
    ELSE [banner |-> "",
          calls |-> <<FetchCall, Call("contains", profile.workspace, d.name)>>]

\* A faulty refresh_page that rebuilds the key list from nothing.
refresh_page_clear(keys, profile, name, ring) ==
    IF name # "" /\ Truthy(profile)
    THEN Put(NoKeys, name, SSHKeyItem_create(profile.username, name, ring[name]))
    ELSE NoKeys

\* A faulty refresh_page that adds nothing to the key list.
refresh_page_skip(keys, profile, name, ring) == keys

\* refresh_page: the entry the finished dialog adds to the key list
refresh_page(keys, profile, name, ring) ==
    IF name # "" /\ Truthy(profile)
    THEN Put(keys, name, SSHKeyItem_create(profile.username, name, ring[name]))
    ELSE keys

\* a submission that ends in a banner: the dialog stays open and re-renders
CreateRejected(c, text, calls) ==
    /\ dialog' = [dialog EXCEPT ![c] = CreateComponent_build(@)]
    /\ last' = [Observe("create", c) EXCEPT
                  !.name = dialog[c].name, !.arg = dialog[c].comment,
                  !.banner = text, !.calls = calls]
    /\ UNCHANGED <<rings, ssh_keys>>

\* A faulty failure branch that goes on to the finish handler.
GenerateFailed_finishes(c, result, calls) ==
    /\ dialog' = [dialog EXCEPT ![c] = NoDialog]
    /\ last' = [Observe("create", c) EXCEPT
                  !.name = dialog[c].name, !.arg = dialog[c].comment,
                  !.banner = Generated(dialog[c].name), !.calls = calls,
                  !.result = result, !.finished = TRUE]
    /\ UNCHANGED <<rings, ssh_keys>>

\* ring.generate returned a falsy value or raised: the banner is set, the
\* dialog re-renders and stays open, on_finish is not called
GenerateFailed(c, result, calls) ==
    /\ dialog' = [dialog EXCEPT ![c] = CreateComponent_build(@)]
    /\ last' = [Observe("create", c) EXCEPT
                  !.name = dialog[c].name, !.arg = dialog[c].comment,
                  !.banner = IF result = "falsy" THEN GenerationFailed
                             ELSE ErrorText,
                  !.calls = calls, !.result = result,
                  !.present = dialog[c].name \in
                                DOMAIN rings[ProfileOf(c).workspace]]
    /\ UNCHANGED <<rings, ssh_keys>>

\* _on_press_create, and on success the on_finish handler refresh_page
_on_press_create(c) ==
    LET d == dialog[c]
        profile == ProfileOf(c)
        ws == SSHKeyRing_base(profile)
        checks == create_checks(d, profile, rings)
        gen == KeyCall("generate", ws, d.name, d.algorithm, d.bits)
        ring == Put(rings[ws], d.name, SSHKeyPair(d.algorithm, d.bits, d.comment))
    IN
    /\ alive[c]
    /\ d.kind = "create"
    /\ UNCHANGED <<enduser, alive, url, sessions, issued, generated, menu_items>>
    /\ IF checks.banner # ""
       THEN CreateRejected(c, checks.banner, checks.calls)
       ELSE \E result \in {"ok", "falsy", "raise"} :
            IF result = "ok"
            THEN /\ rings' = [rings EXCEPT ![ws] = ring]
                 /\ ssh_keys' = [ssh_keys EXCEPT
                        ![c] = refresh_page(@, profile, d.name, ring)]
                 /\ dialog' = [dialog EXCEPT ![c] = NoDialog]
                 /\ last' = [Observe("create", c) EXCEPT
                        !.name = d.name, !.arg = d.comment,
                        !.banner = Generated(d.name), !.result = "ok",
                        !.present = d.name \in DOMAIN rings[ws],
                        !.calls = checks.calls \o
                                  <<gen, FetchCall, Call("index", ws, d.name)>>,
                        !.finished = TRUE]
            ELSE GenerateFailed(c, result, Append(checks.calls, gen))

\* _on_press_cancel of either dialog, and its on_finish handler refresh_page
_on_press_cancel(c) ==
    /\ alive[c]
    /\ dialog[c].kind # "none"
    /\ dialog' = [dialog EXCEPT ![c] = NoDialog]
    /\ ssh_keys' = [ssh_keys EXCEPT
                      ![c] = refresh_page(@, ProfileOf(c), "", EmptyRing)]
    /\ last' = [Observe("cancel", c) EXCEPT !.finished = TRUE]
    /\ UNCHANGED <<enduser, alive, url, sessions, issued, generated, rings,
               menu_items>>

\* ------------------------------------------------------- upload dialog
_on_press_upload_item(c) ==
    /\ alive[c]
    /\ url[c].path = "/ssh"
    /\ dialog[c].kind = "none"
    /\ dialog' = [dialog EXCEPT ![c] = [NoDialog EXCEPT !.kind = "upload"]]
    /\ UNCHANGED <<enduser, alive, url, sessions, issued, generated, rings,
                   ssh_keys, last, menu_items>>

UploadComponent_on_change_name(c, text) ==
    LET d == dialog[c] IN
    /\ d.kind = "upload"
    /\ text # d.name
    /\ dialog' = [dialog EXCEPT ![c] = [d EXCEPT !.name = text]]
    /\ UNCHANGED <<enduser, alive, url, sessions, issued, generated, rings,
                   ssh_keys, last, menu_items>>

_on_change_private(c, text) ==
    LET d == dialog[c]
        parsed == SSHKeyPair_parse(text)
        d1 == [d EXCEPT !.private = text]
    IN
    /\ d.kind = "upload"
    /\ text # d.private
    /\ dialog' = [dialog EXCEPT
                    ![c] = IF d1.name = "" /\ parsed.ok /\ parsed.pair.comment # ""
                           THEN [d1 EXCEPT !.name = parsed.pair.comment]
                           ELSE d1]
    /\ UNCHANGED <<enduser, alive, url, sessions, issued, generated, rings,
                   ssh_keys, last, menu_items>>

_on_pick_file(c, text) ==
    LET d == dialog[c]
        parsed == SSHKeyPair_parse(text)
    IN
    /\ d.kind = "upload"
    /\ dialog' = [dialog EXCEPT
                    ![c] = IF parsed.ok
                           THEN [d EXCEPT !.name = parsed.pair.comment,
                                          !.private = text]
                           ELSE d]
    /\ last' = [Observe("pick_file", c) EXCEPT
                  !.arg = text,
                  !.banner = IF parsed.ok THEN "" ELSE InvalidFile]
    /\ UNCHANGED <<enduser, alive, url, sessions, issued, generated, rings,
                   ssh_keys, menu_items>>

\* A faulty _on_press_save without the duplicate-name check.
save_checks_no_conflict(d, profile, rs) ==
    IF d.name = "" THEN [banner |-> NameRequired, calls |-> <<>>]
    ELSE IF d.private = "" THEN [banner |-> PrivateRequired, calls |-> <<>>]
    ELSE IF ~Truthy(profile)
    THEN [banner |-> LoginRequired, calls |-> <<FetchCall>>]
    ELSE [banner |-> "", calls |-> <<FetchCall>>]

\* _on_press_save up to the call of ring.create
save_checks(d, profile, rs) ==
    IF d.name = "" THEN [banner |-> NameRequired, calls |-> <<>>]
    ELSE IF d.private = "" THEN [banner |-> PrivateRequired, calls |-> <<>>]
    ELSE IF ~Truthy(profile)
    THEN [banner |-> LoginRequired, calls |-> <<FetchCall>>]
    ELSE IF d.name \in DOMAIN rs[profile.workspace]
    THEN [banner |-> Conflict,
          calls |-> <<FetchCall, Call("contains", profile.workspace, d.name)>>]
    ELSE [banner |-> "",
          calls |-> <<FetchCall, Call("contains", profile.workspace, d.name)>>]

UploadRejected(c, text, calls) ==
    /\ last' = [Observe("save", c) EXCEPT
                  !.name = dialog[c].name, !.arg = dialog[c].private,
                  !.banner = text, !.calls = calls]
    /\ UNCHANGED <<rings, ssh_keys, dialog>>

\* _on_press_save, and on success the on_finish handler refresh_page
_on_press_save(c) ==
    LET d == dialog[c]
        profile == ProfileOf(c)
        ws == SSHKeyRing_base(profile)
        checks == save_checks(d, profile, rings)
        parsed == SSHKeyPair_parse(d.private)
        create == KeyCall("create", ws, d.name, parsed.pair.algo, parsed.pair.bits)
        ring == Put(rings[ws], d.name, parsed.pair)
    IN
    /\ alive[c]
    /\ d.kind = "upload"
    /\ UNCHANGED <<enduser, alive, url, sessions, issued, generated, menu_items>>
    /\ IF checks.banner # ""
       THEN UploadRejected(c, checks.banner, checks.calls)
       ELSE \E result \in {"ok", "raise"} :
            IF result = "ok" /\ parsed.ok
            THEN /\ rings' = [rings EXCEPT ![ws] = ring]
                 /\ ssh_keys' = [ssh_keys EXCEPT
                        ![c] = refresh_page(@, profile, d.name, ring)]
                 /\ dialog' = [dialog EXCEPT ![c] = NoDialog]
                 /\ last' = [Observe("save", c) EXCEPT
                        !.name = d.name, !.arg = d.private,
                        !.banner = Saved(d.name),
                        !.calls = checks.calls \o
                                  <<create, FetchCall, Call("index", ws, d.name)>>,
                        !.finished = TRUE]
            ELSE UploadRejected(c, ErrorText, Append(checks.calls, create))

\* ---------------------------------------------------------------- delete
\* A faulty confirm_delete that drops the entry whatever ring.remove returns.
delete_keys_always(keys, removed, name) == Drop(keys, name)

\* A faulty confirm_delete that leaves the entry listed.
delete_keys_never(keys, removed, name) == keys

\* confirm_delete's update of the key list after ring.remove(name)
delete_keys(keys, removed, name) ==
    IF removed THEN Drop(keys, name) ELSE keys

\* confirm_delete's banner
delete_prompt(profile, removed, name) ==
    IF ~Truthy(profile) THEN LoginRequired
    ELSE IF removed THEN Deleted(name) ELSE DeletionFailed(name)

\* _on_press_delete_item(name) followed by confirm_delete
confirm_delete(c, name) ==
    LET profile == ProfileOf(c)
        ws == SSHKeyRing_base(profile)
        removed == Truthy(profile) /\ name \in DOMAIN rings[ws]
    IN
    /\ alive[c]
    /\ url[c].path = "/ssh"
    /\ dialog[c].kind = "none"
    /\ name \in DOMAIN ssh_keys[c]
    /\ rings' = IF removed THEN [rings EXCEPT ![ws] = Drop(@, name)] ELSE rings
    /\ ssh_keys' = [ssh_keys EXCEPT
                      ![c] = delete_keys(@, Truthy(profile) /\ removed, name)]
    /\ last' = [Observe("delete", c) EXCEPT
                  !.name = name,
                  !.banner = delete_prompt(profile, removed, name),
                  !.calls = IF Truthy(profile)
                            THEN <<FetchCall, Call("remove", ws, name)>>
                            ELSE <<FetchCall>>,
                  !.finished = TRUE]
    /\ UNCHANGED <<enduser, alive, url, sessions, issued, generated, dialog,
               menu_items>>

\* ----------------------------------------------------------- SSHPage
\* pages/ssh_page.py: the page component that lists the keys as menu items
MenuItem_create(name, pair) ==
    [name |-> name, comment |-> pair.comment, type |-> pair.algo,
     bits |-> pair.bits]

\* the orders in which a walk of the ring can yield its names
Orderings(S) ==
    {f \in [1..Cardinality(S) -> S] : \A i, j \in DOMAIN f : i # j => f[i] # f[j]}

Names(items) == {items[i].name : i \in DOMAIN items}

\* list.pop(index)
Pop(items, index) ==
    [i \in 1..(Len(items) - 1) |-> IF i < index THEN items[i] ELSE items[i + 1]]

ItemDeleted == "Item was deleted"

\* SSHPage.on_populate on a freshly created component: one menu item per
\* name of the ring of the profile the session's settings resolve to
SSHPage_on_populate(c) ==
    LET profile == ProfileOf(c)
        ring == rings[profile.workspace]
    IN
    /\ alive[c]
    /\ dialog[c].kind = "none"
    /\ IF Truthy(profile)
       THEN \E order \in Orderings(DOMAIN ring) :
                menu_items' = [menu_items EXCEPT
                    ![c] = [i \in DOMAIN order |->
                              MenuItem_create(order[i], ring[order[i]])]]
       ELSE menu_items' = [menu_items EXCEPT ![c] = <<>>]
    /\ last' = [Observe("page_populate", c) EXCEPT
                  !.calls = IF Truthy(profile)
                            THEN <<FetchCall,
                                   Call("iterate", profile.workspace, "")>>
                            ELSE <<FetchCall>>]
    /\ UNCHANGED <<enduser, alive, url, sessions, issued, generated, rings,
                   ssh_keys, dialog>>

\* SSHPage.on_press_delete_item(index): the Delete button of a listed item
SSHPage_on_press_delete_item(c, index) ==
    /\ alive[c]
    /\ dialog[c].kind = "none"
    /\ index \in DOMAIN menu_items[c]
    /\ menu_items' = [menu_items EXCEPT ![c] = Pop(@, index)]
    /\ last' = [Observe("page_delete", c) EXCEPT
                  !.name = menu_items[c][index].name,
                  !.banner = ItemDeleted, !.finished = TRUE]
    /\ UNCHANGED <<enduser, alive, url, sessions, issued, generated, rings,
                   ssh_keys, dialog>>

\* ------------------------------------------- external calls that raise
\* The handlers below are the same handlers, run when one of their external
\* calls outside a try block raises: the exception leaves the handler, and
\* nothing after the raising call is executed.
Escaped(op, c, name, arg, calls) ==
    [Observe(op, c) EXCEPT !.name = name, !.arg = arg, !.calls = calls,
                           !.escaped = "Exception"]

\* _on_press_create when account.fetch (at = "fetch"), the membership test
\* (at = "contains") or refresh_page's ring[name] (at = "index") raises
_on_press_create_raising(c, at) ==
    LET d == dialog[c]
        profile == ProfileOf(c)
        ws == profile.workspace
        checks == create_checks(d, profile, rings)
        gen == KeyCall("generate", ws, d.name, d.algorithm, d.bits)
        ring == Put(rings[ws], d.name, SSHKeyPair(d.algorithm, d.bits, d.comment))
    IN
    /\ alive[c]
    /\ d.kind = "create"
    /\ d.name # "" /\ d.comment # ""
    /\ at \in {"contains", "index"} => Truthy(profile)
    /\ at = "index" => checks.banner = ""
    /\ rings' = IF at = "index" THEN [rings EXCEPT ![ws] = ring] ELSE rings
    /\ last' = Escaped("create", c, d.name, d.comment,
                  IF at = "fetch" THEN <<FetchCall>>
                  ELSE IF at = "contains"
                  THEN <<FetchCall, Call("contains", ws, d.name)>>
                  ELSE checks.calls \o
                       <<gen, FetchCall, Call("index", ws, d.name)>>)
    /\ UNCHANGED <<enduser, alive, url, sessions, issued, generated,
                   ssh_keys, dialog, menu_items>>

\* _on_press_save when account.fetch, the membership test or refresh_page's
\* ring[name] raises
_on_press_save_raising(c, at) ==
    LET d == dialog[c]
        profile == ProfileOf(c)
        ws == profile.workspace
        checks == save_checks(d, profile, rings)
        parsed == SSHKeyPair_parse(d.private)
        create == KeyCall("create", ws, d.name, parsed.pair.algo, parsed.pair.bits)
        ring == Put(rings[ws], d.name, parsed.pair)
    IN
    /\ alive[c]
    /\ d.kind = "upload"
    /\ d.name # "" /\ d.private # ""
    /\ at \in {"contains", "index"} => Truthy(profile)
    /\ at = "index" => checks.banner = "" /\ parsed.ok
    /\ rings' = IF at = "index" THEN [rings EXCEPT ![ws] = ring] ELSE rings
    /\ last' = Escaped("save", c, d.name, d.private,
                  IF at = "fetch" THEN <<FetchCall>>
                  ELSE IF at = "contains"
                  THEN <<FetchCall, Call("contains", ws, d.name)>>
                  ELSE checks.calls \o
                       <<create, FetchCall, Call("index", ws, d.name)>>)
    /\ UNCHANGED <<enduser, alive, url, sessions, issued, generated,
                   ssh_keys, dialog, menu_items>>

\* confirm_delete when account.fetch or ring.remove raises
confirm_delete_raising(c, name, at) ==
    LET profile == ProfileOf(c) IN
    /\ alive[c]
    /\ url[c].path = "/ssh"
    /\ dialog[c].kind = "none"
    /\ name \in DOMAIN ssh_keys[c]
    /\ at = "remove" => Truthy(profile)
    /\ last' = Escaped("delete", c, name, "",
                  IF at = "fetch" THEN <<FetchCall>>
                  ELSE <<FetchCall, Call("remove", profile.workspace, name)>>)
    /\ UNCHANGED <<enduser, alive, url, sessions, issued, generated, rings,
                   ssh_keys, dialog, menu_items>>

\* a navigation to the SSH Keys page on which on_populate's walk of the
\* ring raises: the page is shown with the keys read so far (here none)
on_populate_raising(c) ==
    /\ alive[c]
    /\ dialog[c].kind = "none"
    /\ url[c].path \notin {"/ssh", "/login"}
    /\ Truthy(ProfileOf(c))
    /\ url' = [url EXCEPT ![c] = [path |-> "/ssh", target |-> NoTarget]]
    /\ ssh_keys' = [ssh_keys EXCEPT ![c] = NoKeys]
    /\ last' = [Navigated("populate", c, sessions, enduser[c], "/ssh") EXCEPT
                  !.calls = <<FetchCall,
                              Call("iterate", ProfileOf(c).workspace, "")>>,
                  !.escaped = "Exception"]
    /\ UNCHANGED <<enduser, alive, sessions, issued, generated, rings, dialog,
               menu_items>>

\* ------------------------------------------------------- public key API
ApiUids == Users \cup {"eve"}             \* uid query values; eve has no account
StorageFaults == {"none", "contains", "index"}   \* the ring access that raises

\* SSHKeyPair.public: the public key text of a stored pair
public(pair) ==
    "ssh-" \o pair.algo \o " " \o ToString(pair.bits) \o " " \o pair.comment

\* SSHKeyRing(base=Profile(accounts, username=uid).workspace)
keyring(rs, uid) == IF uid \in Users THEN rs[uid] ELSE EmptyRing

Response(status, body, escaped) ==
    [status |-> status, body |-> body, headers |-> <<>>, escaped |-> escaped]

\* A faulty get that reads the key without the membership test.
PublicKeyAPI_get_unchecked(rs, uid, kid, fault) ==
    IF fault = "index" \/ kid \notin DOMAIN keyring(rs, uid)
    THEN Response(500, "", "HTTPException")
    ELSE Response(200, public(keyring(rs, uid)[kid]), "")

\* PublicKeyAPI.get: an HTTPException is the handler's own outcome; any
\* other exception leaves it uncaught and the server answers with 500
PublicKeyAPI_get(rs, uid, kid, fault) ==
    IF fault = "contains" THEN Response(500, "", "Exception")
    ELSE IF kid \notin DOMAIN keyring(rs, uid)
    THEN Response(404, "", "HTTPException")
    ELSE IF fault = "index" THEN Response(500, "", "HTTPException")
    ELSE Response(200, public(keyring(rs, uid)[kid]), "")

\* the headers download() sets on the response get() returned
download_headers(kid) ==
    <<<<"Cache-Control", "no-cache">>,
      <<"Content-Disposition", "attachment; filename=" \o kid \o ".pub">>>>

\* A faulty download that answers 200 whatever get() did.
PublicKeyAPI_download_ok(rs, uid, kid, fault) ==
    [PublicKeyAPI_get(rs, uid, kid, fault) EXCEPT
        !.status = 200, !.escaped = "", !.headers = download_headers(kid)]

\* PublicKeyAPI.download
PublicKeyAPI_download(rs, uid, kid, fault) ==
    LET response == PublicKeyAPI_get(rs, uid, kid, fault) IN
    IF response.escaped # "" THEN response
    ELSE [response EXCEPT !.headers = download_headers(kid)]

Responded(op, uid, kid, fault, response) ==
    [NoObservation EXCEPT
        !.op = op, !.name = kid, !.arg = uid, !.guard = fault,
        !.status = response.status, !.body = response.body,
        !.headers = response.headers, !.escaped = response.escaped]

\* GET /api/ssh/pub/raw?uid=..&kid=..
get(uid, kid, fault) ==
    /\ last' = Responded("get", uid, kid, fault,
                         PublicKeyAPI_get(rings, uid, kid, fault))
    /\ UNCHANGED <<enduser, alive, url, sessions, issued, generated, rings,
                   ssh_keys, dialog, menu_items>>

\* GET /api/ssh/pub/download?uid=..&kid=..
download(uid, kid, fault) ==
    /\ last' = Responded("download", uid, kid, fault,
                         PublicKeyAPI_download(rings, uid, kid, fault))
    /\ UNCHANGED <<enduser, alive, url, sessions, issued, generated, rings,
                   ssh_keys, dialog, menu_items>>

\* ------------------------------------------------------ specifications
\* Identity only: every client, every page, every credential.
AuthNext ==
    \/ \E c \in Conns, path \in Pages : on_session_start(c, path)
    \/ \E c \in Conns, path \in Pages : navigate_to(c, path)
    \/ \E c \in Conns : _on_login(c)
    \/ \E c \in Conns, u \in Usernames, p \in Passwords : _login(c, u, p)
    \/ \E c \in Conns : _on_logout(c)

SpecAuth == Init /\ [][AuthNext]_vars

\* Key lifecycle of one client on one account: every event of the dialogs.
Next ==
    \/ on_session_start("c1", "/login")
    \/ _login("c1", "alice", "good")
    \/ navigate_to("c1", "/ssh")
    \/ _on_logout("c1")
    \/ Expire
    \/ _on_press_create_item("c1")
    \/ \E text \in Texts : CreateComponent_on_change_name("c1", text)
    \/ \E text \in Texts : _on_change_comment("c1", text)
    \/ \E value \in Algos : _on_change_algorithm("c1", value)
    \/ \E raw \in RawBits : _on_change_bits("c1", raw)
    \/ \E value \in EcdsaBits : _on_select_bits("c1", value)
    \/ _on_press_create("c1")
    \/ _on_press_cancel("c1")
    \/ _on_press_upload_item("c1")
    \/ \E text \in Texts : UploadComponent_on_change_name("c1", text)
    \/ \E text \in PrivateTexts : _on_change_private("c1", text)
    \/ \E text \in PrivateTexts \ {""} : _on_pick_file("c1", text)
    \/ _on_press_save("c1")
    \/ \E name \in Texts : confirm_delete("c1", name)

Spec == Init /\ [][Next]_vars

\* Two clients of one account share its ring: c1 generates, both list and
\* delete.
TabsNext ==
    \/ \E c \in Conns : on_session_start(c, "/login")
    \/ \E c \in Conns : _login(c, "alice", "good")
    \/ \E c \in Conns : navigate_to(c, "/ssh")
    \/ _on_press_create_item("c1")
    \/ \E text \in Texts : CreateComponent_on_change_name("c1", text)
    \/ \E raw \in RawBits : _on_change_bits("c1", raw)
    \/ _on_press_create("c1")
    \/ _on_press_cancel("c1")
    \/ \E c \in Conns, name \in Texts : confirm_delete(c, name)

SpecTabs == Init /\ [][TabsNext]_vars

\* Round trip of one client on one account: generate, list, delete.
RoundNext ==
    \/ on_session_start("c1", "/login")
    \/ _login("c1", "alice", "good")
    \/ navigate_to("c1", "/ssh")
    \/ _on_press_create_item("c1")
    \/ \E text \in Texts : CreateComponent_on_change_name("c1", text)
    \/ \E text \in CommentTexts : _on_change_comment("c1", text)
    \/ \E raw \in RawBits : _on_change_bits("c1", raw)
    \/ _on_press_create("c1")
    \/ \E name \in Texts \cup CommentTexts : confirm_delete("c1", name)

SpecRound == Init /\ [][RoundNext]_vars

\* The public key endpoints beside one client that generates and deletes.
ApiNext ==
    \/ on_session_start("c1", "/login")
    \/ _login("c1", "alice", "good")
    \/ navigate_to("c1", "/ssh")
    \/ _on_press_create_item("c1")
    \/ \E text \in Texts : CreateComponent_on_change_name("c1", text)
    \/ \E value \in Algos : _on_change_algorithm("c1", value)
    \/ _on_press_create("c1")
    \/ \E name \in Texts : confirm_delete("c1", name)
    \/ \E uid \in ApiUids, kid \in Texts, fault \in StorageFaults :
            get(uid, kid, fault)
    \/ \E uid \in ApiUids, kid \in Texts, fault \in StorageFaults :
            download(uid, kid, fault)

SpecApi == Init /\ [][ApiNext]_vars

\* One client whose account store and ring may raise in any external call.
FaultAts == {"fetch", "contains", "index"}

FaultsNext ==
    \/ on_session_start("c1", "/login")
    \/ _login("c1", "alice", "good")
    \/ navigate_to("c1", "/ssh")
    \/ \E path \in {"/", "/public"} : navigate_to("c1", path)
    \/ on_populate_raising("c1")
    \/ _on_press_create_item("c1")
    \/ \E text \in Texts : CreateComponent_on_change_name("c1", text)
    \/ _on_press_create("c1")
    \/ \E at \in FaultAts : _on_press_create_raising("c1", at)
    \/ _on_press_cancel("c1")
    \/ _on_press_upload_item("c1")
    \/ \E text \in PrivateTexts : _on_change_private("c1", text)
    \/ _on_press_save("c1")
    \/ \E at \in FaultAts : _on_press_save_raising("c1", at)
    \/ \E name \in Texts : confirm_delete("c1", name)
    \/ \E name \in Texts, at \in {"fetch", "remove"} :
            confirm_delete_raising("c1", name, at)

SpecFaults == Init /\ [][FaultsNext]_vars

\* Two sessions of one account that both generate and delete.  A handler
\* runs on the server's one event loop without interruption up to its next
\* await; _on_press_create has none between its membership test and its
\* call of ring.generate.  A handler that can run eventually does.
RaceNext ==
    \/ \E c \in Conns : on_session_start(c, "/login")
    \/ \E c \in Conns : _login(c, "alice", "good")
    \/ \E c \in Conns : navigate_to(c, "/ssh")
    \/ \E c \in Conns : _on_press_create_item(c)
    \/ \E c \in Conns, text \in Texts : CreateComponent_on_change_name(c, text)
    \/ \E c \in Conns : _on_press_create(c)
    \/ \E c \in Conns : _on_press_cancel(c)
    \/ \E c \in Conns, name \in Texts : confirm_delete(c, name)

SpecRace == Init /\ [][RaceNext]_vars /\ WF_vars(RaceNext)

\* The import dialog of one client: every name, pasted text and picked file.
ImportNext ==
    \/ on_session_start("c1", "/login")
    \/ _login("c1", "alice", "good")
    \/ navigate_to("c1", "/ssh")
    \/ _on_logout("c1")
    \/ _on_press_upload_item("c1")
    \/ \E text \in ImportNames : UploadComponent_on_change_name("c1", text)
    \/ \E text \in KeyTexts : _on_change_private("c1", text)
    \/ \E text \in KeyTexts \ {""} : _on_pick_file("c1", text)
    \/ _on_press_save("c1")
    \/ _on_press_cancel("c1")

SpecImport == Init /\ [][ImportNext]_vars

\* One client whose token is fresh, logged in, logged out or expired, on
\* every page, beside an account that holds a key.
TokenNext ==
    \/ \E path \in Pages : on_session_start("c1", path)
    \/ \E path \in Pages : navigate_to("c1", path)
    \/ _on_login("c1")
    \/ \E p \in Passwords : _login("c1", "alice", p)
    \/ _on_logout("c1")
    \/ Expire
    \/ _on_press_create_item("c1")
    \/ \E text \in Texts : CreateComponent_on_change_name("c1", text)
    \/ _on_press_create("c1")
    \/ _on_press_cancel("c1")
    \/ _on_press_upload_item("c1")
    \/ \E text \in PrivateTexts : _on_change_private("c1", text)
    \/ _on_press_save("c1")
    \/ \E name \in Texts : confirm_delete("c1", name)

SpecToken == Init /\ [][TokenNext]_vars

\* One client that generates keys and deletes them from either list.
PageNext ==
    \/ on_session_start("c1", "/login")
    \/ _login("c1", "alice", "good")
    \/ navigate_to("c1", "/ssh")
    \/ _on_press_create_item("c1")
    \/ \E text \in Texts : CreateComponent_on_change_name("c1", text)
    \/ _on_press_create("c1")
    \/ _on_press_cancel("c1")
    \/ \E name \in Texts : confirm_delete("c1", name)
    \/ SSHPage_on_populate("c1")
    \/ \E index \in 1..2 : SSHPage_on_press_delete_item("c1", index)

SpecPage == Init /\ [][PageNext]_vars

\* The ring of one account under every way an item enters or leaves it.
RingNext ==
    \/ on_session_start("c1", "/login")
    \/ _login("c1", "alice", "good")
    \/ navigate_to("c1", "/ssh")
    \/ _on_press_create_item("c1")
    \/ \E text \in Texts : CreateComponent_on_change_name("c1", text)
    \/ \E value \in Algos : _on_change_algorithm("c1", value)
    \/ \E raw \in RawBits : _on_change_bits("c1", raw)
    \/ \E value \in EcdsaBits : _on_select_bits("c1", value)
    \/ _on_press_create("c1")
    \/ _on_press_cancel("c1")
    \/ _on_press_upload_item("c1")
    \/ \E text \in KeyTexts \ {""} : _on_pick_file("c1", text)
    \/ _on_press_save("c1")
    \/ \E name \in Texts : confirm_delete("c1", name)

SpecRing == Init /\ [][RingNext]_vars

\* Two clients, each logged in as either user, that list, generate and
\* delete keys in any interleaving, with sessions that end or expire.
OwnersNext ==
    \/ \E c \in Conns : on_session_start(c, "/login")
    \/ \E c \in Conns, u \in Users : _login(c, u, "good")
    \/ \E c \in Conns : navigate_to(c, "/ssh")
    \/ \E c \in Conns : _on_login(c)
    \/ \E c \in Conns : _on_logout(c)
    \/ Expire
    \/ \E c \in Conns : _on_press_create_item(c)
    \/ \E c \in Conns : CreateComponent_on_change_name(c, "k1")
    \/ \E c \in Conns : _on_press_create(c)
    \/ \E c \in Conns : _on_press_cancel(c)
    \/ \E c \in Conns : confirm_delete(c, "k1")

SpecOwners == Init /\ [][OwnersNext]_vars

\* Two clients, each logged in as either user, that generate, import and
\* delete keys in any interleaving.
FrameNext ==
    \/ \E c \in Conns : on_session_start(c, "/login")
    \/ \E c \in Conns, u \in Users : _login(c, u, "good")
    \/ \E c \in Conns : navigate_to(c, "/ssh")
    \/ Expire
    \/ \E c \in Conns : _on_press_create_item(c)
    \/ \E c \in Conns : CreateComponent_on_change_name(c, "k1")
    \/ \E c \in Conns : _on_press_create(c)
    \/ \E c \in Conns : _on_press_upload_item(c)
    \/ \E c \in Conns : _on_pick_file(c, "PEM")
    \/ \E c \in Conns : _on_press_save(c)
    \/ \E c \in Conns : confirm_delete(c, "k1")

SpecFrame == Init /\ [][FrameNext]_vars

\* ------------------------------------------------------------ properties
NoRingCall(calls) == \A i \in DOMAIN calls : calls[i].fn \notin RingFns

NoWrite(calls) ==
    \A i \in DOMAIN calls : calls[i].fn \notin {"generate", "create"}

\* the banner of a submission whose token does not resolve: the first
\* failing field validation, and LoginRequired only when there is none
UnresolvedBanner(op, name, arg) ==
    IF op = "delete" THEN LoginRequired
    ELSE IF name = "" THEN NameRequired
    ELSE IF arg = ""
    THEN (IF op = "create" THEN CommentRequired ELSE PrivateRequired)
    ELSE LoginRequired

\* C1 as stated: a Generate, Import or Delete whose token does not resolve
\* ends in exactly LoginRequired whatever its other inputs are, and makes no
\* Ring call.
C1_LoginRequiredWhateverInputs ==
    (last.op \in {"create", "save", "delete"} /\ last.profile = "") =>
        /\ last.banner = LoginRequired
        /\ NoRingCall(last.calls)

\* C1: a Generate, Import or Delete whose token does not resolve makes no
\* Ring call; it ends in LoginRequired when its name and comment / private
\* key are non-empty (Delete: always), and in the validation error of the
\* first empty field otherwise.
C1_UnresolvedNeverReachesRing ==
    (last.op \in {"create", "save", "delete"} /\ last.profile = "") =>
        /\ NoRingCall(last.calls)
        /\ last.banner = UnresolvedBanner(last.op, last.name, last.arg)

C1_Witness ==
    /\ last.op = "create"
    /\ last.profile = ""
    /\ last.name # ""
    /\ last.arg # ""
    /\ last.banner = LoginRequired
    /\ last.calls = <<FetchCall>>

\* the submission of the open dialog of client c
Submits(c) ==
    \/ dialog[c].kind = "create" /\ _on_press_create(c)
    \/ dialog[c].kind = "upload" /\ _on_press_save(c)

NamePresent(c) ==
    /\ Truthy(ProfileOf(c))
    /\ dialog[c].name \in DOMAIN rings[ProfileOf(c).workspace]

SecondField(c) ==
    IF dialog[c].kind = "create" THEN dialog[c].comment ELSE dialog[c].private

\* C2 as stated: a Generate or Import whose name is already in the resolved
\* profile's ring always ends in Conflict, without a call of generate /
\* create, and leaves the ring as it was.
C2_AlwaysConflict ==
    [][(Submits("c1") /\ NamePresent("c1")) =>
            /\ last'.banner = Conflict
            /\ NoWrite(last'.calls)
            /\ rings' = rings]_vars

\* C2: a Generate or Import whose name is already in the resolved profile's
\* ring never calls generate / create and leaves the ring as it was; it ends
\* in Conflict when its comment (Generate) or private key (Import) is
\* non-empty, and in that field's validation error otherwise.
C2_DuplicateNameLeavesRing ==
    [][(Submits("c1") /\ NamePresent("c1")) =>
            /\ NoWrite(last'.calls)
            /\ rings' = rings
            /\ last'.banner =
                 IF SecondField("c1") # "" THEN Conflict
                 ELSE IF dialog["c1"].kind = "create" THEN CommentRequired
                 ELSE PrivateRequired]_vars

C2_Witness ==
    /\ last.op = "save"
    /\ last.profile # ""
    /\ last.banner = Conflict
    /\ last.name \in DOMAIN rings[last.profile]
    /\ dialog["c1"].kind = "upload"

\* C3: a Delete of a name that is not in the resolved profile's ring ends in
\* DeletionFailed('Failed to delete <name>') and changes neither the ring
\* nor the client's key list.
C3_DeleteAbsentChangesNothing ==
    [][\A c \in Conns, name \in Texts :
        (/\ confirm_delete(c, name)
         /\ Truthy(ProfileOf(c))
         /\ name \notin DOMAIN rings[ProfileOf(c).workspace]) =>
            /\ last'.banner = DeletionFailed(name)
            /\ rings' = rings
            /\ ssh_keys' = ssh_keys]_vars

C3_Witness ==
    /\ last.op = "delete"
    /\ last.profile # ""
    /\ last.name = "k1"
    /\ last.banner = "Failed to delete k1"
    /\ "k1" \in DOMAIN ssh_keys[last.conn]

Normalized(algo, bits, requested) ==
    /\ algo \in Algos
    /\ algo = "rsa" => bits = Max(1024, requested) /\ bits >= 1024
    /\ algo = "dsa" => bits = 1024
    /\ algo = "ecdsa" => bits \in {256, 384, 521}

\* C4: whatever the create dialog went through, the (algorithm, bits) a
\* Generate submission passes to Ring.generate is normalised: rsa with
\* max(1024, requested bits), dsa with 1024, ecdsa with one of 256, 384, 521.
C4_GenerateBitsNormalized ==
    [][_on_press_create("c1") =>
        \A i \in DOMAIN last'.calls :
            last'.calls[i].fn = "generate" =>
                Normalized(last'.calls[i].algo, last'.calls[i].bits,
                           dialog["c1"].requested)]_vars

C4_Witness ==
    /\ last.op = "create"
    /\ \E i \in DOMAIN last.calls :
        /\ last.calls[i].fn = "generate"
        /\ last.calls[i].algo = "rsa"
        /\ last.calls[i].bits = 1024

\* C5: on an empty ring and with a resolved token, a successful
\* Generate(k1, c, rsa, 2048) leaves exactly one item, k1 with 2048 bits, in
\* the ring and in the client's key list; a Delete(k1) that follows succeeds
\* and leaves both empty.
C5_RoundTrip ==
    [][/\ (/\ _on_press_create("c1")
           /\ last'.finished
           /\ Truthy(ProfileOf("c1"))
           /\ rings["alice"] = EmptyRing
           /\ dialog["c1"].name = "k1"
           /\ dialog["c1"].comment = "c"
           /\ dialog["c1"].algorithm = "rsa"
           /\ dialog["c1"].bits = 2048) =>
              /\ DOMAIN rings'["alice"] = {"k1"}
              /\ rings'["alice"]["k1"].bits = 2048
              /\ DOMAIN ssh_keys'["c1"] = {"k1"}
              /\ ssh_keys'["c1"]["k1"].name = "k1"
              /\ ssh_keys'["c1"]["k1"].bits = 2048
       /\ (/\ confirm_delete("c1", "k1")
           /\ Truthy(ProfileOf("c1"))
           /\ DOMAIN rings["alice"] = {"k1"}
           /\ DOMAIN ssh_keys["c1"] = {"k1"}) =>
              /\ last'.banner = Deleted("k1")
              /\ rings'["alice"] = EmptyRing
              /\ ssh_keys'["c1"] = NoKeys]_vars

C5_Witness ==
    /\ last.op = "create"
    /\ last.finished
    /\ last.name = "k1"
    /\ last.arg = "c"
    /\ DOMAIN rings["alice"] = {"k1"}
    /\ rings["alice"]["k1"] = SSHKeyPair("rsa", 2048, "c")
    /\ DOMAIN ssh_keys["c1"] = {"k1"}

\* C6: a session start generates a session_id only for a token whose
\* session_id is empty and leaves secret_key as it is; a non-empty
\* session_id is never changed by a session start, a login attempt or a
\* logout.
C6_SessionIdStable ==
    [][\A c \in Conns :
        /\ enduser[c].session_id # "" =>
              enduser'[c].session_id = enduser[c].session_id
        /\ (\E path \in Pages : on_session_start(c, path)) =>
              /\ enduser'[c].secret_key = enduser[c].secret_key
              /\ enduser'[c].session_id # ""
              /\ (generated' # generated) = (enduser[c].session_id = "")]_vars

C6_Witness ==
    \E c \in Conns :
        /\ last.op = "session_start"
        /\ last.conn = c
        /\ enduser[c].session_id # ""
        /\ enduser[c].secret_key # ""
        /\ generated = 1

C8_LoginFrame ==
    [][\A c \in Conns :
        /\ \A u \in Usernames, p \in Passwords :
            (_login(c, u, p) /\ ~Verify(u, p)) =>
                /\ last'.banner = InvalidCredentials
                /\ enduser' = enduser
                /\ url' = url
                /\ last'.nav = ""
                /\ sessions' = sessions
        /\ \A u \in Users :
            (_login(c, u, "good") /\ enduser[c].session_id # "") =>
                /\ enduser'[c].session_id = enduser[c].session_id
                /\ enduser'[c].secret_key # ""
                /\ fetch(sessions', enduser'[c].session_id,
                         enduser'[c].secret_key) = Profile(u)
        /\ (enduser'[c].secret_key # enduser[c].secret_key
            /\ enduser'[c].secret_key # "") =>
                /\ \E u \in Users : _login(c, u, "good")
                /\ enduser'[c].secret_key \notin
                      {s.secret_key : s \in sessions}
                /\ \E s \in sessions' :
                      /\ s.session_id = enduser[c].session_id
                      /\ s.secret_key = enduser'[c].secret_key]_vars

C8_Witness ==
    /\ last.op = "login"
    /\ last.banner = "Please try again."
    /\ last.name = "alice"
    /\ \E c \in Conns : enduser[c].secret_key # ""

C10_KeyIffAuthenticated ==
    \A c \in Conns :
        (enduser[c].secret_key # "") <=> Truthy(ProfileOf(c))

C10_Witness ==
    \E c, c2 \in Conns :
        /\ last.op = "logout"
        /\ last.conn = c
        /\ last.finished
        /\ enduser[c].secret_key = ""
        /\ enduser[c].session_id # ""
        /\ enduser[c2].secret_key # ""
        /\ Truthy(ProfileOf(c2))

NoKey(uid, kid) == kid \notin DOMAIN keyring(rings, uid)

\* C11: the raw endpoint asked for a (uid, kid) that has no key (kid not in
\* uid's ring, or uid without an account) answers 404, whether or not
\* reading a key from the ring would fail; it does not answer 500 and no
\* exception other than its own HTTPException(404) leaves it.
C11_MissingKeyNotFound ==
    (/\ last.op = "get"
     /\ NoKey(last.arg, last.name)
     /\ last.guard # "contains") =>
        /\ last.status = 404
        /\ last.escaped = "HTTPException"
        /\ last.body = ""

C11_Witness ==
    /\ last.op = "get"
    /\ last.arg = "alice"
    /\ last.name = "k1"
    /\ last.guard = "index"
    /\ rings["bob"] = EmptyRing
    /\ rings["alice"] = EmptyRing
    /\ issued > 0
    /\ last.status = 404

\* C12: both endpoints answer 404 for a missing key, 500 when an access to
\* the ring raises, and 200 with the stored public key text otherwise; the
\* download response then also carries Cache-Control: no-cache and
\* Content-Disposition: attachment; filename=<kid>.pub; and download answers
\* with the status get answers with for the same (uid, kid).
C12_EndpointStatuses ==
    last.op \in {"get", "download"} =>
        LET uid == last.arg
            kid == last.name
            fault == last.guard
        IN
        /\ last.status =
              IF fault = "contains" THEN 500
              ELSE IF NoKey(uid, kid) THEN 404
              ELSE IF fault = "index" THEN 500
              ELSE 200
        /\ last.status = 200 =>
              /\ last.body = public(keyring(rings, uid)[kid])
              /\ last.escaped = ""
        /\ (last.status = 200 /\ last.op = "download") =>
              last.headers =
                <<<<"Cache-Control", "no-cache">>,
                  <<"Content-Disposition",
                    "attachment; filename=" \o kid \o ".pub">>>>
        /\ (last.status = 200 /\ last.op = "get") => last.headers = <<>>
        /\ last.status = PublicKeyAPI_get(rings, uid, kid, fault).status

C12_Witness ==
    /\ last.op = "download"
    /\ last.arg = "alice"
    /\ last.name = "k1"
    /\ last.status = 200
    /\ last.body = "ssh-dsa 1024 k1"
    /\ Len(last.headers) = 2

\* C13: a Generate or Import submission runs its checks in the order name,
\* comment / private key, profile resolution, duplicate name, and reports
\* the first that fails; an empty name, comment or private key is rejected
\* before account.fetch and before any Ring access, and no rejected
\* submission changes the ring.
C13_ValidationFirst ==
    [][Submits("c1") =>
        LET d == dialog["c1"]
            second == SecondField("c1")
            required == IF d.kind = "create" THEN CommentRequired
                        ELSE PrivateRequired
            contains == Call("contains", ProfileOf("c1").workspace, d.name)
        IN
        IF d.name = ""
        THEN last'.banner = NameRequired /\ last'.calls = <<>>
             /\ rings' = rings
        ELSE IF second = ""
        THEN last'.banner = required /\ last'.calls = <<>>
             /\ rings' = rings
        ELSE IF ~Truthy(ProfileOf("c1"))
        THEN last'.banner = LoginRequired /\ last'.calls = <<FetchCall>>
             /\ rings' = rings
        ELSE IF NamePresent("c1")
        THEN last'.banner = Conflict /\ last'.calls = <<FetchCall, contains>>
             /\ rings' = rings
        ELSE /\ Len(last'.calls) >= 3
             /\ last'.calls[1] = FetchCall
             /\ last'.calls[2] = contains
             /\ last'.calls[3].fn \in {"generate", "create"}]_vars

C13_Witness ==
    /\ last.op = "save"
    /\ last.profile = ""
    /\ last.name # ""
    /\ last.arg = ""
    /\ last.banner = "Please enter a private key"
    /\ last.calls = <<>>
    /\ enduser["c1"].secret_key # ""

\* C14 as stated: no exception raised by an external call of List,
\* Generate, Import, Delete or the list refresh after a success leaves the
\* handler; each is turned into a reported failure.
C14_NoExceptionEscapes ==
    last.op \in {"populate", "create", "save", "delete"} =>
        /\ last.escaped = ""
        /\ (\E i \in DOMAIN last.calls : last.calls[i].fn \in RingFns) =>
              last.banner # ""

\* a session start, login attempt or logout of client c
IdentityStep(c) ==
    \/ \E path \in Pages : on_session_start(c, path)
    \/ \E u \in Usernames, p \in Passwords : _login(c, u, p)
    \/ _on_logout(c)

Count(calls, fn) == Cardinality({i \in DOMAIN calls : calls[i].fn = fn})

\* C16: a Generate whose call of Ring.generate returns a falsy value or
\* raises reports 'Failed to generate SSH key', respectively the text of the
\* exception; it does not run the finish handler, leaves the dialog open
\* and the key list without the name it had not, and has called
\* Ring.generate exactly once.
C16_GenerationFailed ==
    [][(_on_press_create("c1") /\ last'.result \in {"falsy", "raise"}) =>
        /\ last'.banner = IF last'.result = "falsy"
                          THEN "Failed to generate SSH key" ELSE ErrorText
        /\ ~last'.finished
        /\ dialog'["c1"].kind = "create"
        /\ dialog'["c1"].name = dialog["c1"].name
        /\ ssh_keys' = ssh_keys
        /\ Count(last'.calls, "generate") = 1
        /\ Count(last'.calls, "index") = 0
        /\ last'.calls[Len(last'.calls)].fn = "generate"]_vars

C16_Witness ==
    /\ last.op = "create"
    /\ last.result = "raise"
    /\ last.banner = ErrorText
    /\ dialog["c1"].kind = "create"
    /\ last.name = "k1"
    /\ "k1" \notin DOMAIN ssh_keys["c1"]

\* the key list entry that shows the pair stored under `name` for `user`
Shows(item, user, name, pair) ==
    /\ item.name = name
    /\ item.user = user
    /\ item.algorithm = pair.algo
    /\ item.bits = pair.bits
    /\ item.comment = pair.comment

\* C17: after a successful Generate or Import the ring holds the name and
\* the client's key list holds an entry under it that shows the ring's pair
\* and the profile's username; a name leaves the ring only by a successful
\* Delete of it, and leaves the key list only by such a Delete or when the
\* page is left; while the SSH Keys page is shown every key of the ring is
\* listed.
C17_NewKeyVisible ==
    [][/\ (Submits("c1") /\ last'.finished) =>
            LET name == dialog["c1"].name
                user == ProfileOf("c1").username
            IN
            /\ name \in DOMAIN rings'[user]
            /\ name \in DOMAIN ssh_keys'["c1"]
            /\ Shows(ssh_keys'["c1"][name], user, name, rings'[user][name])
       /\ \A name \in DOMAIN rings["alice"] \ DOMAIN rings'["alice"] :
            /\ last'.op = "delete"
            /\ last'.name = name
            /\ last'.banner = Deleted(name)
       /\ \A name \in DOMAIN ssh_keys["c1"] \ DOMAIN ssh_keys'["c1"] :
            \/ last'.op = "delete" /\ last'.name = name
                 /\ last'.banner = Deleted(name)
            \/ url'["c1"] # url["c1"]
            \/ ~alive'["c1"]
            \/ last'.op = "session_start"
       /\ (alive'["c1"] /\ url'["c1"].path = "/ssh") =>
            \A name \in DOMAIN rings'["alice"] :
                /\ name \in DOMAIN ssh_keys'["c1"]
                /\ Shows(ssh_keys'["c1"][name], "alice", name,
                         rings'["alice"][name])]_vars

C17_Witness ==
    /\ last.op = "save"
    /\ last.finished
    /\ last.name = "k1"
    /\ "k1" \in DOMAIN rings["alice"]
    /\ "k1" \in DOMAIN ssh_keys["c1"]
    /\ ssh_keys["c1"]["k1"].user = "alice"
    /\ ssh_keys["c1"]["k1"].bits = 2048

\* C18: Cancel of a create or upload dialog, whatever was edited, picked or
\* submitted in it before, calls neither the account store nor the ring,
\* leaves the ring, the key list and the token as they were, shows no
\* message and closes the dialog.
C18_CancelNoSideEffects ==
    [][_on_press_cancel("c1") =>
        /\ last'.calls = <<>>
        /\ last'.banner = ""
        /\ rings' = rings
        /\ ssh_keys' = ssh_keys
        /\ sessions' = sessions
        /\ enduser' = enduser
        /\ dialog'["c1"].kind = "none"]_vars

C18_Witness ==
    /\ last.op = "cancel"
    /\ last.finished
    /\ last.profile = "alice"
    /\ DOMAIN ssh_keys["c1"] = {"k1"}
    /\ DOMAIN rings["alice"] = {"k1"}
    /\ dialog["c1"].kind = "none"

\* a Generate submission of client c that calls ring.generate for a name
\* the ring of its workspace already holds
DoubleGenerate(c) ==
    /\ _on_press_create(c)
    /\ NamePresent(c)
    /\ Count(last'.calls, "generate") > 0

Derives(c) ==
    \E text \in KeyTexts :
        _on_change_private(c, text) \/ _on_pick_file(c, text)

\* C21 as stated: in the import dialog neither a paste of private key text
\* nor a pick of a key file replaces a non-empty name, and a Save whose
\* name is empty is rejected with 'Please enter a name' before any call of
\* the account store or the ring.
C21_NameDerivedOnlyWhileEmpty ==
    [][/\ (Derives("c1") /\ dialog["c1"].name # "") =>
              dialog'["c1"].name = dialog["c1"].name
       /\ (_on_press_save("c1") /\ dialog["c1"].name = "") =>
              /\ last'.banner = NameRequired
              /\ last'.calls = <<>>
              /\ rings' = rings]_vars

\* a token without a session_id or without a secret_key
Incomplete(user) == user.session_id = "" \/ user.secret_key = ""

\* the dialog contents a submission can carry
Filled(kind, name, second) ==
    [NoDialog EXCEPT !.kind = kind, !.name = name, !.comment = second,
                     !.private = second]

\* C22: a token with an empty session_id or an empty secret_key does not
\* resolve to a profile; with it the guard of the SSH Keys page redirects,
\* the key list is populated with nothing, and a Generate, Import or Delete
\* with whatever inputs makes no ring call.  A complete token the store no
\* longer resolves gets the same guard result, the same empty list and the
\* same banners, so the two cases cannot be told apart by the outcome.
C22_IncompleteTokenNeverResolves ==
    /\ \A c \in Conns :
        /\ Incomplete(enduser[c]) => ~Truthy(ProfileOf(c))
        /\ ~Truthy(ProfileOf(c)) =>
              /\ Restrict(sessions, enduser[c]) = PublicRoute
              /\ Landing(sessions, enduser[c], "/ssh") # "/ssh"
              /\ on_populate(sessions, enduser[c], rings) = NoKeys
              /\ delete_prompt(ProfileOf(c), FALSE, "k1") = LoginRequired
              /\ \A name \in Texts, second \in PrivateTexts :
                    /\ NoRingCall(create_checks(Filled("create", name, second),
                                                ProfileOf(c), rings).calls)
                    /\ NoRingCall(save_checks(Filled("upload", name, second),
                                              ProfileOf(c), rings).calls)
                    /\ create_checks(Filled("create", name, second),
                                     ProfileOf(c), rings).banner =
                          UnresolvedBanner("create", name, second)
                    /\ save_checks(Filled("upload", name, second),
                                   ProfileOf(c), rings).banner =
                          UnresolvedBanner("save", name, second)
    /\ (last.guard # "" /\ last.profile = "") =>
          /\ last.guard = PublicRoute
          /\ last.nav = PublicRoute
          /\ ssh_keys[last.conn] = NoKeys
    /\ (last.op \in {"create", "save", "delete"} /\ last.profile = "") =>
          NoRingCall(last.calls)

\* a token with a session_id and no secret_key is turned away by the guard
\* while the ring of the account it once belonged to holds a key
C22_Witness ==
    /\ last.op = "session_start"
    /\ last.conn = "c1"
    /\ last.guard = PublicRoute
    /\ enduser["c1"].session_id # ""
    /\ enduser["c1"].secret_key = ""
    /\ "k1" \in DOMAIN rings["alice"]
    /\ ssh_keys["c1"] = NoKeys

\* the names client c sees listed, in either list
Listed(c) == DOMAIN ssh_keys[c] \cup Names(menu_items[c])

\* a press of a Delete button of client c, in either list
Deletes(c) ==
    \/ \E name \in Texts : confirm_delete(c, name)
    \/ \E index \in 1..2 : SSHPage_on_press_delete_item(c, index)

\* C23 as stated: a Delete reports success and takes the entry off the
\* displayed list only if Ring.remove(name) was called for the resolved
\* profile and returned true; when it returned false the outcome is
\* DeletionFailed and the entry stays listed; no delete handler takes an
\* entry off the displayed list while the key is still in the ring.
C23_DeleteRemovesOnlyAfterRingRemove ==
    [][Deletes("c1") =>
        LET name == last'.name
            ws == ProfileOf("c1").workspace
            called == Count(last'.calls, "remove") = 1
            removed == /\ called
                       /\ name \in DOMAIN rings[ws]
                       /\ name \notin DOMAIN rings'[ws]
            success == last'.banner \in {Deleted(name), ItemDeleted}
        IN
        /\ success => removed
        /\ Listed("c1") # Listed("c1")' =>
              /\ removed
              /\ \A n \in Listed("c1") \ Listed("c1")' :
                    \A u \in Users : n \notin DOMAIN rings'[u]
        /\ (called /\ ~removed) =>
              /\ last'.banner = DeletionFailed(name)
              /\ Listed("c1")' = Listed("c1")]_vars

\* the valid (algorithm, bits) combinations
ValidPair(pair) ==
    \/ pair.algo = "rsa" /\ pair.bits >= 1024
    \/ pair.algo = "dsa" /\ pair.bits = 1024
    \/ pair.algo = "ecdsa" /\ pair.bits \in {256, 384, 521}

\* C24 as stated: in every reachable state, after any successful and failed
\* Generate, Import and Delete, every item of every ring, imported ones
\* included, has a valid (algorithm, bits) pair (a ring, being a mapping,
\* holds each name once).
C24_EveryItemValid ==
    \A u \in Users : \A n \in DOMAIN rings[u] : ValidPair(rings[u][n])

\* client c is shown the SSH Keys page and its token resolves
Listing(c) == alive[c] /\ url[c].path = "/ssh" /\ Truthy(ProfileOf(c))

\* C25: for one session with no other writer, after every populate,
\* successful or failed Generate, Import or Delete and every Cancel, the
\* names of the session's key list are exactly the names of the ring of the
\* profile its token resolves to, each entry stored under its own name.
C25_CacheMatchesRing ==
    Listing("c1") =>
        /\ DOMAIN ssh_keys["c1"] = DOMAIN rings[ProfileOf("c1").workspace]
        /\ \A n \in DOMAIN ssh_keys["c1"] : ssh_keys["c1"][n].name = n

C25_Witness ==
    /\ Listing("c1")
    /\ last.op = "save"
    /\ last.banner = Conflict
    /\ DOMAIN ssh_keys["c1"] = {"k1"}
    /\ DOMAIN rings["alice"] = {"k1"}
    /\ dialog["c1"].kind = "upload"

Mutates(c) ==
    \/ _on_press_create(c)
    \/ _on_press_save(c)
    \/ confirm_delete(c, "k1")

\* C27: a Generate, Import or Delete run by a session whose token resolves
\* to profile P calls only the ring of P's workspace and leaves the ring of
\* every other user as it was; one whose token does not resolve changes no
\* ring; and the entry listed for a generated or imported key carries P's
\* username.
C27_OnlyOwnRing ==
    [][\A c \in Conns : Mutates(c) =>
        LET P == ProfileOf(c) IN
        /\ \A i \in DOMAIN last'.calls :
              last'.calls[i].fn \in RingFns => last'.calls[i].ws = P.workspace
        /\ \A u \in Users : u # P.workspace => rings'[u] = rings[u]
        /\ ~Truthy(P) => rings' = rings
        /\ (last'.finished /\ last'.op \in {"create", "save"}) =>
              /\ last'.name \in DOMAIN rings'[P.workspace]
              /\ ssh_keys'[c][last'.name].user = P.username
              /\ \A other \in Conns \ {c} : ssh_keys'[other] = ssh_keys[other]]_vars

\* bob has imported a key under a name alice's ring holds as well
C27_Witness ==
    /\ last.op = "save"
    /\ last.finished
    /\ last.profile = "bob"
    /\ "k1" \in DOMAIN rings["bob"]
    /\ "k1" \in DOMAIN rings["alice"]
    /\ rings["bob"]["k1"] # rings["alice"]["k1"]
    /\ ssh_keys[last.conn]["k1"].user = "bob"

\* the logout of client c that the account store accepts
AcceptedLogout(c) == _on_logout(c) /\ Truthy(ProfileOf(c))

\* the (session_id, secret_key) pairs a token can hold
TokenPairs ==
    {EndUser(SessionID_generate(i), SecretKey(k)) :
        i \in 1..Cardinality(Conns), k \in 1..MaxKey}

\* what a token that no longer resolves gets from the guard, the key list
\* and Delete, and that no submission with it reaches the ring
Denied(store, t, rs) ==
    LET profile == fetch(store, t.session_id, t.secret_key) IN
    /\ ~Truthy(profile)
    /\ Restrict(store, t) = PublicRoute
    /\ Landing(store, t, "/ssh") = PublicRoute
    /\ on_populate(store, t, rs) = NoKeys
    /\ delete_prompt(profile, FALSE, "k1") = LoginRequired
    /\ \A name \in Texts, second \in PrivateTexts :
          /\ NoRingCall(create_checks(Filled("create", name, second),
                                      profile, rs).calls)
          /\ NoRingCall(save_checks(Filled("upload", name, second),
                                    profile, rs).calls)

\* C28 as stated: after an accepted logout the guard redirects and every
\* Generate, Import and Delete attempted with the token, whatever its
\* inputs, yields LoginRequired without touching the ring.
C28_LoginRequiredAfterLogout ==
    [][AcceptedLogout("c1") =>
        LET t == enduser["c1"]
            profile == fetch(sessions', t.session_id, t.secret_key)
        IN
        /\ Denied(sessions', t, rings')
        /\ \A name \in Texts, second \in PrivateTexts :
              /\ create_checks(Filled("create", name, second),
                               profile, rings').banner = LoginRequired
              /\ save_checks(Filled("upload", name, second),
                             profile, rings').banner = LoginRequired]_vars

\* C28: after an accepted logout neither the token as it was nor the token
\* as the logout left it resolves; the guard redirects it from the SSH Keys
\* page, its key list is empty, Delete yields LoginRequired, and a Generate
\* or Import makes no ring call and yields LoginRequired when its name and
\* comment / private key are non-empty, the validation error of the first
\* empty field otherwise.  A token that does not resolve starts to resolve
\* only by a successful login of a session that holds its session_id.
C28_LoggedOutTokenDenied ==
    [][/\ AcceptedLogout("c1") =>
            \A t \in {enduser["c1"], enduser'["c1"]} :
                LET profile == fetch(sessions', t.session_id, t.secret_key)
                IN
                /\ Denied(sessions', t, rings')
                /\ \A name \in Texts, second \in PrivateTexts :
                      /\ create_checks(Filled("create", name, second),
                                       profile, rings').banner =
                            UnresolvedBanner("create", name, second)
                      /\ save_checks(Filled("upload", name, second),
                                     profile, rings').banner =
                            UnresolvedBanner("save", name, second)
       /\ \A t \in TokenPairs :
            (/\ ~Truthy(fetch(sessions, t.session_id, t.secret_key))
             /\ Truthy(fetch(sessions', t.session_id, t.secret_key))) =>
                /\ last'.op = "login"
                /\ last'.finished
                /\ enduser[last'.conn].session_id = t.session_id
                /\ enduser'[last'.conn] = t]_vars

C28_Witness ==
    /\ last.op = "logout"
    /\ last.finished
    /\ ~alive["c1"]
    /\ enduser["c1"].session_id # ""
    /\ enduser["c1"].secret_key = ""
    /\ sessions = {}
    /\ "k1" \in DOMAIN rings["alice"]

\* the bits value is one the dialog's input for the algorithm can hold
ValidBits(d) ==
    \/ d.algorithm = "rsa" /\ d.bits >= MinRsaBits
    \/ d.algorithm = "dsa" /\ d.bits = DsaBits
    \/ d.algorithm = "ecdsa" /\ d.bits \in EcdsaBits

\* a step in which the user sets the bits of c's create dialog
SetsBits(c) ==
    \/ \E raw \in RawBits : _on_change_bits(c, raw)
    \/ \E value \in EcdsaBits : _on_select_bits(c, value)

\* C29: with algorithm ecdsa the bits the user selected from {256, 384, 521}
\* are the bits passed to Ring.generate by the next successful submission,
\* whatever re-renders happen in between; and a step of the open create
\* dialog that keeps the algorithm and is not the user's own bits input
\* never changes bits that are already valid.
C29_SelectedBitsGenerated ==
    [][LET d == dialog["c1"]
           d2 == dialog'["c1"]
       IN
       /\ (/\ d.kind = "create"
           /\ d2.kind = "create"
           /\ d2.algorithm = d.algorithm
           /\ ValidBits(d)
           /\ ~SetsBits("c1")) => d2.bits = d.bits
       /\ (/\ _on_press_create("c1")
           /\ last'.finished
           /\ d.algorithm = "ecdsa"
           /\ d.requested \in EcdsaBits) =>
              \A i \in DOMAIN last'.calls :
                  last'.calls[i].fn = "generate" =>
                      last'.calls[i].bits = d.requested]_vars

\* C30: in the create dialog a change of the name sets sync_name to "the
\* text is empty" and copies the text into comment iff sync_comment is set
\* and the text is non-empty, and symmetrically for a change of the comment;
\* so a comment edit leaves a name the user typed alone until the name is
\* cleared (and vice versa).  No other step of the open dialog changes
\* name, comment or the flags, and a dialog opens with both flags set.
C30_MirrorOnlyUntilTyped ==
    [][LET d == dialog["c1"]
           d2 == dialog'["c1"]
       IN
       /\ (\E text \in Texts : CreateComponent_on_change_name("c1", text)) =>
            /\ d2.sync_name = (d2.name = "")
            /\ d2.sync_comment = d.sync_comment
            /\ d2.comment = IF d.sync_comment /\ d2.name # ""
                            THEN d2.name ELSE d.comment
       /\ (\E text \in CommentTexts : _on_change_comment("c1", text)) =>
            /\ d2.sync_comment = (d2.comment = "")
            /\ d2.sync_name = d.sync_name
            /\ d2.name = IF d.sync_name /\ d2.comment # ""
                         THEN d2.comment ELSE d.name
            /\ ~d.sync_name => d2.name = d.name /\ d.name # ""
       /\ (/\ d.kind = "create"
           /\ d2.kind = "create"
           /\ ~(\E text \in Texts : CreateComponent_on_change_name("c1", text))
           /\ ~(\E text \in CommentTexts : _on_change_comment("c1", text))) =>
            /\ d2.name = d.name
            /\ d2.comment = d.comment
            /\ d2.sync_name = d.sync_name
            /\ d2.sync_comment = d.sync_comment
       /\ (d.kind = "none" /\ d2.kind = "create") =>
            /\ d2.sync_name
            /\ d2.sync_comment
            /\ d2.name = ""
            /\ d2.comment = ""]_vars

C30_Witness ==
    /\ dialog["c1"].kind = "create"
    /\ dialog["c1"].name = "k1"
    /\ dialog["c1"].comment = "c"
    /\ ~dialog["c1"].sync_name
    /\ ~dialog["c1"].sync_comment

====
